---- MODULE Spec2Model ----
(***************************************************************************)
(* Model of the plan-document downloader (src/DownloadFile.py): the batch  *)
(* loop of main(), the directory watcher move_new_pdf, the retrying UI     *)
(* helpers, and the browser / file system they act on.                     *)
(*                                                                         *)
(* Texts are sequences of one-character strings.  A result row is the      *)
(* sequence of the texts of its <td> cells.  A file of the temporary       *)
(* download directory is named by the number of the entity whose trigger   *)
(* produced it; its content is identified with that number.  The output    *)
(* directory is a set of entries <<path, content>>.                        *)
(***************************************************************************)
EXTENDS Integers, Sequences, FiniteSets

\* ------------------------------------------------------------------ bounds
MaxPlans == 2
MaxRows == 2

\* ------------------------------------------------------- program constants
LIMIT == 10
PollBudget == 80
ClearRetries == 3
ClickAttempts == 3
MaxLen == 120

TARGET_YEAR == <<"2", "0", "2", "4">>

\* ------------------------------------------------------------ text helpers
IsSpace(c) == c \in {" ", "\t"}

RECURSIVE LStrip(_)
LStrip(s) ==
    IF s = <<>> THEN <<>>
    ELSE IF IsSpace(Head(s)) THEN LStrip(Tail(s)) ELSE s

RECURSIVE RStrip(_)
RStrip(s) ==
    IF s = <<>> THEN <<>>
    ELSE IF IsSpace(s[Len(s)]) THEN RStrip(SubSeq(s, 1, Len(s) - 1)) ELSE s

\* str.strip()
Strip(s) == RStrip(LStrip(s))

\* a comparison of the whole text instead of a containment test
PyInExact(sub, s) == s = sub

\* Python's `sub in s`, scanning the start positions from the left
RECURSIVE PyIn(_, _)
PyIn(sub, s) ==
    IF Len(s) < Len(sub) THEN FALSE
    ELSE IF SubSeq(s, 1, Len(sub)) = sub THEN TRUE
    ELSE PyIn(sub, Tail(s))

\* re.sub(r"\s+", " ", name)
RECURSIVE CollapseWs(_)
CollapseWs(s) ==
    IF s = <<>> THEN <<>>
    ELSE IF IsSpace(Head(s)) THEN <<" ">> \o CollapseWs(LStrip(Tail(s)))
    ELSE <<Head(s)>> \o CollapseWs(Tail(s))

Forbidden == {"\\", "/", "*", "?", ":", "\"", "<", ">", "|"}

\* re.sub(r'[\\/*?:"<>|]', "_", name)
ReplaceForbidden(s) ==
    [i \in 1..Len(s) |-> IF s[i] \in Forbidden THEN "_" ELSE s[i]]

Take(s, n) == SubSeq(s, 1, IF Len(s) < n THEN Len(s) ELSE n)

sanitize_filename(name) ==
    Take(ReplaceForbidden(Strip(CollapseWs(name))), MaxLen)

\* OUTPUT_DIR / f"{plan_slug}__{TARGET_YEAR}.pdf"
target_pdf_of(raw_plan) ==
    sanitize_filename(raw_plan) \o <<"_", "_">> \o TARGET_YEAR
        \o <<".", "p", "d", "f">>

\* ------------------------------------------------------------------ inputs
PlanA == <<"A", "/", "B">>
PlanC == <<"C", " ">>
Plans == {PlanA, PlanC}

X == <<"x">>
Y2024Plan == <<"2", "0", "2", "4", " ", "P", "l", "a", "n", " ", "Y", "e", "a", "r">>
Y2023 == <<"2", "0", "2", "3">>
Y2024Pad == <<" ", "2", "0", "2", "4", " ">>

RowKinds ==
    { <<X, X, Y2024Plan>>,        \* third cell contains the year
      <<X, X, Y2023>>,            \* another year
      <<X, X, Y2024Pad, X>>,      \* the year surrounded by blanks
      <<TARGET_YEAR, X, Y2023>>,  \* the year in another column only
      <<X>> }                     \* a row of fewer than three cells

SeqsUpTo(S, n) == UNION {[1..k -> S] : k \in 0..n}

Tables == SeqsUpTo(RowKinds, MaxRows)

\* ------------------------------------------------------------------- state
VARIABLES
    pc,          \* position of main()
    session,     \* the browser session: "none", "open", "quit"
    raised,      \* an exception is propagating out of main()
    plan_names,  \* the entity names read from the CSV, truncated to LIMIT
    idx,         \* number of the entity being processed (0 before the loop)
    crumbs,      \* the search criteria applied in the page, in order
    modal,       \* the "Please try back later" overlay is shown
    table,       \* the rows located by the row scan in progress
    pendingDl,   \* triggered transfers that have not started writing
    markers,     \* transfers with a .crdownload file in the download dir
    dlFiles,     \* the *.pdf files of the download directory
    outDir,      \* the output directory, a set of <<path, content>>
    rowOK,       \* value of has_year_row(driver, TARGET_YEAR)
    before,      \* main(): before = list_pdfs(TEMP_DOWNLOAD_DIR)
    clicked,     \* main(): clicked
    clickedRow,  \* index of the row whose icon received the click, or 0
    attempts,    \* iterations used by the retry loop being executed
    polls,       \* move_new_pdf: iterations of the poll loop used
    moved,       \* main(): moved
    new_pdf,     \* move_new_pdf: new_pdf (-1: none)
    existed,     \* move_new_pdf: value of target_path.exists()
    markerSeen,  \* move_new_pdf: some poll found a .crdownload file
    cleanSeen,   \* move_new_pdf: some poll found no .crdownload file
    newSeen,     \* move_new_pdf: some such poll found a file absent from before
    clearRet,    \* value of clear_plan_name_only: "none", "true", "false"
    fbTrace,     \* the fallback steps executed by the current reset
    site,        \* where the last outcome line was printed
    printed,     \* the <<site, line>> pairs printed so far
    unresolved,  \* triggers whose move_new_pdf call has not returned
    lastRank,    \* Rank of the state in which the program took its last step
    scans,       \* click_download_for_year: how each attempt so far ended
    skipped,     \* move_new_pdf: a poll found a marker while a new file was there
    outAtCall,   \* the output directory when move_new_pdf was called
    modalRet,    \* value of close_try_later_modal: "none", "true", "false"
    pipe         \* run_pipeline of main.py: configuration, position, result

ui == <<crumbs, modal, table>>
fs == <<pendingDl, markers, dlFiles, outDir>>
mv == <<polls, moved, new_pdf, existed, markerSeen, cleanSeen, newSeen>>
scan == <<rowOK, before, clicked, clickedRow>>
rst == <<attempts, clearRet, fbTrace>>
log == <<site, printed>>
inp == <<plan_names, session, raised>>

hist == <<scans, skipped, outAtCall, modalRet>>

vars == <<pc, idx, unresolved, lastRank, inp, ui, fs, mv, scan, rst, log, hist, pipe>>

\* the interface state FilterApplied: year filter active, no query term
FilterApplied == crumbs = <<"year">>

\* the canonical output path of the entity being processed
target_pdf == target_pdf_of(plan_names[idx])

\* ------------------------------------------------------ progress measure
\* the positions of main(), numbered against the direction of control flow
PcRank ==
    [create |-> 19, get |-> 18, modal0 |-> 17, filter0 |-> 16,
     search |-> 15, go |-> 14, render |-> 13, check |-> 12, checked |-> 11,
     click |-> 10, clicked |-> 9, mv_poll |-> 8, report |-> 7, clear |-> 6,
     fb_refresh |-> 5, fb_modal |-> 4, fb_filter |-> 3, loop |-> 2,
     finally |-> 1, exit |-> 0]

\* what is left of the budget of the wait being executed
Remaining ==
    IF pc = "mv_poll" THEN PollBudget - polls
    ELSE IF pc = "click" THEN ClickAttempts - attempts
    ELSE IF pc = "clear" THEN ClearRetries - attempts
    ELSE 0

\* entities still to start, then position p, then budget left
RankAt(p, left) == (Len(plan_names) - idx) * 10000 + PcRank[p] * 100 + left

Rank == RankAt(pc, Remaining)

\* run_pipeline is not running
PipeIdle == [pc |-> "idle"]

MainInit ==
    /\ pc = "create"
    /\ session = "none"
    /\ raised = FALSE
    /\ \E csv \in SeqsUpTo(Plans, MaxPlans) : plan_names = Take(csv, LIMIT)
    /\ idx = 0
    /\ crumbs = <<>>
    /\ modal = FALSE
    /\ table = <<>>
    /\ pendingDl = {}
    /\ markers = {}
    /\ dlFiles = {}
    /\ outDir = {}
    /\ rowOK = FALSE
    /\ before = {}
    /\ clicked = FALSE
    /\ clickedRow = 0
    /\ attempts = 0
    /\ polls = 0
    /\ moved = FALSE
    /\ new_pdf = -1
    /\ existed = FALSE
    /\ markerSeen = FALSE
    /\ cleanSeen = FALSE
    /\ newSeen = FALSE
    /\ clearRet = "none"
    /\ fbTrace = <<>>
    /\ site = "none"
    /\ printed = {}
    /\ unresolved = {}
    /\ lastRank = Rank + 1
    /\ scans = <<>>
    /\ skipped = FALSE
    /\ outAtCall = {}
    /\ modalRet = "none"

Init == MainInit /\ pipe = PipeIdle

\* ------------------------------------------------------ exceptions, exit
\* an exception leaves the try block of main(): control goes to `finally`
RaiseNoFinally ==
    /\ pc' = "exit"
    /\ raised' = TRUE
    /\ UNCHANGED <<plan_names, session>>

Raise ==
    /\ pc' = "finally"
    /\ raised' = TRUE
    /\ UNCHANGED <<plan_names, session>>

\* finally: driver.quit()
Finally ==
    /\ pc = "finally"
    /\ lastRank' = Rank
    /\ UNCHANGED <<pipe, scans, skipped, outAtCall, modalRet>>
    /\ session' = "quit"
    /\ pc' = "exit"
    /\ UNCHANGED <<idx, unresolved, plan_names, raised, ui, fs, mv, scan, rst, log>>

\* ------------------------------------------------------------ session set-up
CreateDriver ==
    /\ pc = "create"
    /\ lastRank' = Rank
    /\ UNCHANGED <<pipe, scans, skipped, outAtCall, modalRet>>
    /\ session' = "open"
    /\ pc' = "get"
    /\ UNCHANGED <<idx, unresolved, plan_names, raised, ui, fs, mv, scan, rst, log>>

\* webdriver.Chrome(...) raises: no session exists, main() is left
CreateDriverFails ==
    /\ pc = "create"
    /\ lastRank' = Rank
    /\ UNCHANGED <<pipe, scans, skipped, outAtCall, modalRet>>
    /\ pc' = "exit"
    /\ raised' = TRUE
    /\ UNCHANGED <<idx, unresolved, plan_names, session, ui, fs, mv, scan, rst, log>>

\* a page load: no criterion applied, no rows, the overlay may be shown
PageLoad ==
    /\ crumbs' = <<>>
    /\ table' = <<>>
    /\ modal' \in BOOLEAN

\* driver.get(TARGET_URL)
Navigate ==
    /\ pc = "get"
    /\ lastRank' = Rank
    /\ UNCHANGED <<pipe, scans, skipped, outAtCall, modalRet>>
    /\ PageLoad
    /\ pc' = "modal0"
    /\ UNCHANGED <<idx, unresolved, inp, fs, mv, scan, rst, log>>

NavigateRaises ==
    /\ pc = "get"
    /\ lastRank' = Rank
    /\ UNCHANGED <<pipe, scans, skipped, outAtCall, modalRet>>
    /\ Raise
    /\ UNCHANGED <<idx, unresolved, ui, fs, mv, scan, rst, log>>

\* close_try_later_modal: the overlay is absent (False), or it is closed
\* (True), or its close control never becomes clickable (False); only a
\* TimeoutException is caught, and main() ignores the returned value
close_try_later_modal ==
    /\ \/ ~modal /\ modal' = FALSE /\ modalRet' = "false"
       \/ modal /\ modal' = FALSE /\ modalRet' = "true"
       \/ modal /\ modal' = TRUE /\ modalRet' = "false"
    /\ UNCHANGED <<crumbs, table>>

CloseModal0 ==
    /\ pc = "modal0"
    /\ lastRank' = Rank
    /\ UNCHANGED <<pipe, scans, skipped, outAtCall>>
    /\ close_try_later_modal
    /\ pc' = "filter0"
    /\ UNCHANGED <<idx, unresolved, inp, fs, mv, scan, rst, log>>

\* apply_year_filter: three waited-for native clicks; with the overlay in
\* the way a native click is intercepted and raises
apply_year_filter ==
    /\ ~modal
    /\ crumbs' = Append(crumbs, "year")
    /\ modalRet' = "none"
    /\ UNCHANGED <<modal, table>>

ApplyFilter0 ==
    /\ pc = "filter0"
    /\ lastRank' = Rank
    /\ UNCHANGED <<pipe, scans, skipped, outAtCall>>
    /\ apply_year_filter
    /\ pc' = "loop"
    /\ UNCHANGED <<idx, unresolved, inp, fs, mv, scan, rst, log>>

ApplyFilter0Raises ==
    /\ pc = "filter0"
    /\ lastRank' = Rank
    /\ UNCHANGED <<pipe, scans, skipped, outAtCall, modalRet>>
    /\ Raise
    /\ UNCHANGED <<idx, unresolved, ui, fs, mv, scan, rst, log>>

\* ------------------------------------------------------ the outcome lines
\* print("Not found") after the results wait timed out
LogTimeout == "Not found"
\* print("Not found") when no row matched the year
LogNoRow == "Not found"
\* print("Not found") when the click or the relocation failed
LogNoFile == "Not found"
\* print("Found")
LogFound == "Found"

EmitLine(where, line) ==
    /\ site' = where
    /\ printed' = printed \cup {<<where, line>>}

\* ------------------------------------------------------------ row scanning
\* has_year_row: rows of fewer than three cells are skipped, the first row
\* whose third cell contains the year ends the scan
RECURSIVE has_year_row(_, _)
has_year_row(rows, year) ==
    IF rows = <<>> THEN FALSE
    ELSE LET tds == Head(rows) IN
         IF Len(tds) < 3 THEN has_year_row(Tail(rows), year)
         ELSE IF PyIn(year, Strip(tds[3])) THEN TRUE
         ELSE has_year_row(Tail(rows), year)

\* the row loop of click_download_for_year from row i on: the index of the
\* row whose icon is clicked, 0 when the loop ends without a click
RECURSIVE click_scan(_, _, _)
click_scan(rows, year, i) ==
    IF i > Len(rows) THEN 0
    ELSE LET tds == rows[i] IN
         IF Len(tds) < 3 THEN click_scan(rows, year, i + 1)
         ELSE IF PyIn(year, Strip(tds[3])) THEN i
         ELSE click_scan(rows, year, i + 1)

\* list_pdfs(folder): the names of the *.pdf files, markers excluded
list_pdfs == dlFiles

\* ------------------------------------------------------------ the batch loop
\* for raw_plan in plan_names: the next entity starts
LoopNext ==
    /\ pc = "loop"
    /\ lastRank' = Rank
    /\ UNCHANGED <<pipe, modalRet>>
    /\ idx < Len(plan_names)
    /\ idx' = idx + 1
    /\ pc' = "search"
    /\ rowOK' = FALSE /\ before' = {} /\ clicked' = FALSE /\ clickedRow' = 0
    /\ polls' = 0 /\ moved' = FALSE /\ new_pdf' = -1 /\ existed' = FALSE
    /\ markerSeen' = FALSE /\ cleanSeen' = FALSE /\ newSeen' = FALSE
    /\ attempts' = 0 /\ clearRet' = "none" /\ fbTrace' = <<>>
    /\ scans' = <<>> /\ skipped' = FALSE /\ outAtCall' = {}
    /\ table' = <<>>
    /\ UNCHANGED <<unresolved, inp, crumbs, modal, fs, log>>

\* the list is exhausted: the try block ends normally
LoopEnd ==
    /\ pc = "loop"
    /\ lastRank' = Rank
    /\ UNCHANGED <<pipe, scans, skipped, outAtCall, modalRet>>
    /\ idx = Len(plan_names)
    /\ pc' = "finally"
    /\ UNCHANGED <<idx, unresolved, inp, ui, fs, mv, scan, rst, log>>

\* search box found, cleared, filled, input event dispatched
SearchBox ==
    /\ pc = "search"
    /\ lastRank' = Rank
    /\ UNCHANGED <<pipe, scans, skipped, outAtCall, modalRet>>
    /\ pc' = "go"
    /\ UNCHANGED <<idx, unresolved, inp, ui, fs, mv, scan, rst, log>>

\* wait.until(... "search-field") times out: TimeoutException, not caught
SearchBoxRaises ==
    /\ pc = "search"
    /\ lastRank' = Rank
    /\ UNCHANGED <<pipe, scans, skipped, outAtCall, modalRet>>
    /\ Raise
    /\ UNCHANGED <<idx, unresolved, ui, fs, mv, scan, rst, log>>

\* the Go! button is clicked: the query term becomes a criterion
GoClick ==
    /\ pc = "go"
    /\ lastRank' = Rank
    /\ UNCHANGED <<pipe, scans, skipped, outAtCall, modalRet>>
    /\ crumbs' = Append(crumbs, "query")
    /\ pc' = "render"
    /\ UNCHANGED <<idx, unresolved, inp, modal, table, fs, mv, scan, rst, log>>

\* except TimeoutException: pass
GoTimeout ==
    /\ pc = "go"
    /\ lastRank' = Rank
    /\ UNCHANGED <<pipe, scans, skipped, outAtCall, modalRet>>
    /\ pc' = "render"
    /\ UNCHANGED <<idx, unresolved, inp, ui, fs, mv, scan, rst, log>>

\* WebDriverWait(driver, 10): at least one row is rendered
RenderRows ==
    /\ pc = "render"
    /\ lastRank' = Rank
    /\ UNCHANGED <<pipe, scans, skipped, outAtCall, modalRet>>
    /\ pc' = "check"
    /\ UNCHANGED <<idx, unresolved, inp, ui, fs, mv, scan, rst, log>>

\* the results wait times out: "Not found", then the reset
RenderTimeout ==
    /\ pc = "render"
    /\ lastRank' = Rank
    /\ UNCHANGED <<pipe, scans, skipped, outAtCall, modalRet>>
    /\ EmitLine("timeout", LogTimeout)
    /\ pc' = "clear"
    /\ UNCHANGED <<idx, unresolved, inp, ui, fs, mv, scan, rst>>

\* has_year_row(driver, TARGET_YEAR) locates the rows afresh and scans them
CheckYear ==
    /\ pc = "check"
    /\ lastRank' = Rank
    /\ UNCHANGED <<pipe, scans, skipped, outAtCall, modalRet>>
    /\ \E t \in Tables :
          /\ table' = t
          /\ rowOK' = has_year_row(t, TARGET_YEAR)
    /\ pc' = "checked"
    /\ UNCHANGED <<idx, unresolved, inp, crumbs, modal, fs, mv, before, clicked,
                   clickedRow, rst, log>>

\* a failed year check that would go on to the trigger after its log line
NoYearRowFallsThrough ==
    /\ pc = "checked"
    /\ lastRank' = Rank
    /\ UNCHANGED <<pipe, scans, skipped, outAtCall, modalRet>>
    /\ ~rowOK
    /\ EmitLine("norow", LogNoRow)
    /\ table' = <<>>
    /\ pc' = "click"
    /\ UNCHANGED <<idx, unresolved, inp, crumbs, modal, fs, mv, scan, rst>>

\* if not has_year_row(...): "Not found", then the reset
NoYearRow ==
    /\ pc = "checked"
    /\ lastRank' = Rank
    /\ UNCHANGED <<pipe, scans, skipped, outAtCall, modalRet>>
    /\ ~rowOK
    /\ EmitLine("norow", LogNoRow)
    /\ table' = <<>>
    /\ pc' = "clear"
    /\ UNCHANGED <<idx, unresolved, inp, crumbs, modal, fs, mv, scan, rst>>

\* an iteration that would go to the trigger with the listing it has
SnapshotKept ==
    /\ pc = "checked"
    /\ lastRank' = Rank
    /\ UNCHANGED <<pipe, scans, skipped, outAtCall, modalRet>>
    /\ rowOK
    /\ before' = before
    /\ table' = <<>>
    /\ pc' = "click"
    /\ UNCHANGED <<idx, unresolved, inp, crumbs, modal, fs, mv, rowOK, clicked,
                   clickedRow, rst, log>>

\* before = list_pdfs(TEMP_DOWNLOAD_DIR)
Snapshot ==
    /\ pc = "checked"
    /\ lastRank' = Rank
    /\ UNCHANGED <<pipe, scans, skipped, outAtCall, modalRet>>
    /\ rowOK
    /\ before' = list_pdfs
    /\ table' = <<>>
    /\ pc' = "click"
    /\ UNCHANGED <<idx, unresolved, inp, crumbs, modal, fs, mv, rowOK, clicked,
                   clickedRow, rst, log>>

\* ------------------------------------------------- click_download_for_year
\* the value returned once the click event has been dispatched
ClickedReturnLost == FALSE

ClickedReturn == TRUE

\* Each attempt locates the rows afresh (driver.find_elements): it reads the
\* rows rendered at that moment, which the page may have replaced since the
\* year check.
\* An attempt whose scan reaches a qualifying row: the event is dispatched
\* on its icon, which starts a transfer in the browser
ClickDispatch ==
    /\ pc = "click"
    /\ lastRank' = Rank
    /\ UNCHANGED <<pipe, skipped, outAtCall, modalRet>>
    /\ attempts < ClickAttempts
    /\ \E t \in Tables :
          /\ click_scan(t, TARGET_YEAR, 1) # 0
          /\ table' = t
          /\ clickedRow' = click_scan(t, TARGET_YEAR, 1)
    /\ scans' = Append(scans, "hit")
    /\ clicked' = ClickedReturn
    /\ pendingDl' = pendingDl \cup {idx}
    /\ unresolved' = unresolved \cup {idx}
    /\ pc' = "clicked"
    /\ UNCHANGED <<idx, inp, crumbs, modal, markers, dlFiles, outDir, mv, rowOK, before,
                   rst, log>>

\* a scan without qualifying row that would go on to the next attempt
ClickNoRowRetry ==
    /\ pc = "click"
    /\ lastRank' = Rank
    /\ UNCHANGED <<pipe, skipped, outAtCall, modalRet>>
    /\ attempts < ClickAttempts
    /\ \E t \in Tables : click_scan(t, TARGET_YEAR, 1) = 0
    /\ attempts' = attempts + 1
    /\ scans' = Append(scans, "norow")
    /\ UNCHANGED <<pc, idx, unresolved, inp, ui, fs, mv, scan, clearRet, fbTrace, log>>

\* an attempt whose scan ends without a qualifying row: return False
ClickNoRow ==
    /\ pc = "click"
    /\ lastRank' = Rank
    /\ UNCHANGED <<pipe, skipped, outAtCall, modalRet>>
    /\ attempts < ClickAttempts
    /\ \E t \in Tables :
          /\ click_scan(t, TARGET_YEAR, 1) = 0
          /\ table' = t
    /\ scans' = Append(scans, "norow")
    /\ clicked' = FALSE
    /\ pc' = "clicked"
    /\ UNCHANGED <<idx, unresolved, inp, crumbs, modal, fs, mv, rowOK, before,
                   clickedRow, rst, log>>

\* an attempt ended by StaleElementReferenceException: sleep, next attempt
ClickStale ==
    /\ pc = "click"
    /\ lastRank' = Rank
    /\ UNCHANGED <<pipe, skipped, outAtCall, modalRet>>
    /\ attempts < ClickAttempts
    /\ attempts' = attempts + 1
    /\ scans' = Append(scans, "stale")
    /\ UNCHANGED <<pc, idx, unresolved, inp, ui, fs, mv, scan, clearRet, fbTrace, log>>

\* the three attempts are used up: return False
ClickGiveUp ==
    /\ pc = "click"
    /\ lastRank' = Rank
    /\ UNCHANGED <<pipe, scans, skipped, outAtCall, modalRet>>
    /\ attempts = ClickAttempts
    /\ clicked' = FALSE
    /\ pc' = "clicked"
    /\ UNCHANGED <<idx, unresolved, inp, ui, fs, mv, rowOK, before, clickedRow, rst, log>>

\* a missing icon that would be swallowed like a stale reference
ClickNoIconSwallowed ==
    /\ pc = "click"
    /\ lastRank' = Rank
    /\ UNCHANGED <<pipe, skipped, outAtCall, modalRet>>
    /\ attempts < ClickAttempts
    /\ \E t \in Tables : click_scan(t, TARGET_YEAR, 1) # 0
    /\ attempts' = attempts + 1
    /\ scans' = Append(scans, "noicon")
    /\ UNCHANGED <<pc, idx, unresolved, inp, ui, fs, mv, scan, clearRet, fbTrace, log>>

\* tds[0].find_element(By.TAG_NAME, "svg") finds no icon in a qualifying
\* row: NoSuchElementException, not caught
ClickNoIcon ==
    /\ pc = "click"
    /\ lastRank' = Rank
    /\ UNCHANGED <<pipe, skipped, outAtCall, modalRet>>
    /\ attempts < ClickAttempts
    /\ \E t \in Tables :
          /\ click_scan(t, TARGET_YEAR, 1) # 0
          /\ table' = t
    /\ scans' = Append(scans, "noicon")
    /\ Raise
    /\ UNCHANGED <<idx, unresolved, crumbs, modal, fs, mv, scan, rst, log>>

\* target_pdf = ...; moved = False; if clicked: moved = move_new_pdf(...)
AfterClick ==
    /\ pc = "clicked"
    /\ lastRank' = Rank
    /\ UNCHANGED <<pipe, skipped, modalRet>>
    /\ pc' = IF clicked THEN "mv_poll" ELSE "report"
    /\ attempts' = 0
    /\ table' = <<>>
    /\ clickedRow' = 0
    /\ scans' = <<>>
    /\ outAtCall' = IF clicked THEN outDir ELSE {}
    /\ UNCHANGED <<idx, unresolved, inp, crumbs, modal, fs, mv, rowOK, before, clicked,
                   clearRet, fbTrace, log>>

\* ------------------------------------------------------------ move_new_pdf
\* new_files = list(after - before)
NewFilesAll(after, bef) == after

NewFiles(after, bef) == after \ bef

\* if target_path.exists(): target_path.unlink()
UnlinkNothing(dir, path) == dir

Unlink(dir, path) == {e \in dir : e[1] # path}

\* new_pdf.rename(target_path): the entry moves to the output directory
Rename(dir, path, file) == dir \cup {<<path, file>>}

Exists(dir, path) == \E e \in dir : e[1] = path

\* a poll that finds a *.crdownload file: sleep, continue; the iteration
\* is used up
MvPollMarkerUncounted ==
    /\ pc = "mv_poll"
    /\ lastRank' = Rank
    /\ UNCHANGED <<pipe, scans, outAtCall, modalRet>>
    /\ polls < PollBudget
    /\ markers # {}
    /\ markerSeen' = TRUE
    /\ skipped' = (skipped \/ dlFiles \ before # {})
    /\ UNCHANGED <<pc, idx, unresolved, inp, ui, fs, polls, moved, new_pdf, existed,
                   cleanSeen, newSeen, scan, rst, log>>

\* a poll that would look for new files although a marker is present
MvPollMarkerMoves ==
    /\ pc = "mv_poll"
    /\ lastRank' = Rank
    /\ UNCHANGED <<pipe, scans, outAtCall, modalRet>>
    /\ polls < PollBudget
    /\ markers # {}
    /\ polls' = polls + 1
    /\ markerSeen' = TRUE
    /\ skipped' = (skipped \/ dlFiles \ before # {})
    /\ IF NewFiles(list_pdfs, before) # {}
       THEN /\ \E f \in NewFiles(list_pdfs, before) :
                  /\ new_pdf' = f
                  /\ dlFiles' = dlFiles \ {f}
                  /\ outDir' = Rename(Unlink(outDir, target_pdf), target_pdf, f)
            /\ existed' = Exists(outDir, target_pdf)
            /\ moved' = TRUE
            /\ unresolved' = unresolved \ {idx}
            /\ pc' = "report"
       ELSE UNCHANGED <<pc, unresolved, dlFiles, outDir, moved, new_pdf, existed>>
    /\ UNCHANGED <<idx, inp, ui, pendingDl, markers, cleanSeen, newSeen, scan, rst, log>>

MvPollMarker ==
    /\ pc = "mv_poll"
    /\ lastRank' = Rank
    /\ UNCHANGED <<pipe, scans, outAtCall, modalRet>>
    /\ polls < PollBudget
    /\ markers # {}
    /\ polls' = polls + 1
    /\ markerSeen' = TRUE
    /\ skipped' = (skipped \/ dlFiles \ before # {})
    /\ UNCHANGED <<pc, idx, unresolved, inp, ui, fs, moved, new_pdf, existed,
                   cleanSeen, newSeen, scan, rst, log>>

\* a poll without marker that finds a new file: it is renamed to the
\* target path, after the file already at that path is deleted; return True
MvPollMove ==
    /\ pc = "mv_poll"
    /\ lastRank' = Rank
    /\ UNCHANGED <<pipe, scans, skipped, outAtCall, modalRet>>
    /\ polls < PollBudget
    /\ markers = {}
    /\ NewFiles(list_pdfs, before) # {}
    /\ \E f \in NewFiles(list_pdfs, before) :
          /\ new_pdf' = f
          /\ dlFiles' = dlFiles \ {f}
          /\ outDir' = Rename(IF Exists(outDir, target_pdf)
                              THEN Unlink(outDir, target_pdf)
                              ELSE outDir, target_pdf, f)
    /\ existed' = Exists(outDir, target_pdf)
    /\ polls' = polls + 1
    /\ cleanSeen' = TRUE
    /\ newSeen' = (newSeen \/ dlFiles \ before # {})
    /\ moved' = TRUE
    /\ unresolved' = unresolved \ {idx}
    /\ pc' = "report"
    /\ UNCHANGED <<idx, inp, ui, pendingDl, markers, markerSeen, scan, rst, log>>

\* a poll without marker and without new file: sleep, next iteration
MvPollNone ==
    /\ pc = "mv_poll"
    /\ lastRank' = Rank
    /\ UNCHANGED <<pipe, scans, skipped, outAtCall, modalRet>>
    /\ polls < PollBudget
    /\ markers = {}
    /\ NewFiles(list_pdfs, before) = {}
    /\ polls' = polls + 1
    /\ cleanSeen' = TRUE
    /\ newSeen' = (newSeen \/ dlFiles \ before # {})
    /\ UNCHANGED <<pc, idx, unresolved, inp, ui, fs, moved, new_pdf, existed,
                   markerSeen, scan, rst, log>>

\* a timeout that would first clear the target path
MvTimeoutUnlinks ==
    /\ pc = "mv_poll"
    /\ lastRank' = Rank
    /\ UNCHANGED <<pipe, scans, skipped, outAtCall, modalRet>>
    /\ polls = PollBudget
    /\ moved' = FALSE
    /\ outDir' = Unlink(outDir, target_pdf)
    /\ unresolved' = unresolved \ {idx}
    /\ pc' = "report"
    /\ UNCHANGED <<idx, inp, ui, pendingDl, markers, dlFiles, polls, new_pdf, existed,
                   markerSeen, cleanSeen, newSeen, scan, rst, log>>

\* the 80 iterations are used up: return False
MvTimeout ==
    /\ pc = "mv_poll"
    /\ lastRank' = Rank
    /\ UNCHANGED <<pipe, scans, skipped, outAtCall, modalRet>>
    /\ polls = PollBudget
    /\ moved' = FALSE
    /\ unresolved' = unresolved \ {idx}
    /\ pc' = "report"
    /\ UNCHANGED <<idx, inp, ui, fs, polls, new_pdf, existed, markerSeen,
                   cleanSeen, newSeen, scan, rst, log>>

\* a report that would go by the click instead of the relocation
ReportByClick ==
    /\ pc = "report"
    /\ lastRank' = Rank
    /\ UNCHANGED <<pipe, scans, modalRet>>
    /\ IF clicked
       THEN EmitLine("found", LogFound)
       ELSE EmitLine("noclick", LogNoFile)
    /\ pc' = "clear"
    /\ polls' = 0 /\ new_pdf' = -1 /\ existed' = FALSE
    /\ markerSeen' = FALSE /\ cleanSeen' = FALSE /\ newSeen' = FALSE
    /\ skipped' = FALSE /\ outAtCall' = {}
    /\ UNCHANGED <<idx, unresolved, inp, ui, fs, moved, scan, rst>>

\* if moved: print("Found") ... else: print("Not found")
\* (the locals of the finished move_new_pdf call are gone)
Report ==
    /\ pc = "report"
    /\ lastRank' = Rank
    /\ UNCHANGED <<pipe, scans, modalRet>>
    /\ IF moved
       THEN EmitLine("found", LogFound)
       ELSE EmitLine(IF clicked THEN "nofile" ELSE "noclick", LogNoFile)
    /\ pc' = "clear"
    /\ polls' = 0 /\ new_pdf' = -1 /\ existed' = FALSE
    /\ markerSeen' = FALSE /\ cleanSeen' = FALSE /\ newSeen' = FALSE
    /\ skipped' = FALSE /\ outAtCall' = {}
    /\ UNCHANGED <<idx, unresolved, inp, ui, fs, moved, scan, rst>>

\* ---------------------------------------------------- clear_plan_name_only
\* the click on the second breadcrumb-delete button removes that criterion
RemoveFirst(c) == Tail(c)

RemoveSecond(c) == <<c[1]>> \o SubSeq(c, 3, Len(c))

\* the button is clickable: scroll, click, return True
ClearClick ==
    /\ pc = "clear"
    /\ lastRank' = Rank
    /\ UNCHANGED <<pipe, scans, skipped, outAtCall, modalRet>>
    /\ attempts < ClearRetries
    /\ Len(crumbs) >= 2
    /\ crumbs' = RemoveSecond(crumbs)
    /\ clearRet' = "true"
    /\ pc' = "loop"
    /\ UNCHANGED <<idx, unresolved, inp, modal, table, fs, mv, scan, attempts, fbTrace, log>>

\* the wait for the button times out: sleep, next attempt
ClearTimeout ==
    /\ pc = "clear"
    /\ lastRank' = Rank
    /\ UNCHANGED <<pipe, scans, skipped, outAtCall, modalRet>>
    /\ attempts < ClearRetries
    /\ attempts' = attempts + 1
    /\ UNCHANGED <<pc, idx, unresolved, inp, ui, fs, mv, scan, clearRet, fbTrace, log>>

\* the retries are used up: return False, main() takes the fallback
ClearGiveUp ==
    /\ pc = "clear"
    /\ lastRank' = Rank
    /\ UNCHANGED <<pipe, scans, skipped, outAtCall, modalRet>>
    /\ attempts = ClearRetries
    /\ clearRet' = "false"
    /\ pc' = "fb_refresh"
    /\ UNCHANGED <<idx, unresolved, inp, ui, fs, mv, scan, attempts, fbTrace, log>>

\* ------------------------------------------------------------- the fallback
\* driver.refresh()
FbRefreshSkipModal ==
    /\ pc = "fb_refresh"
    /\ lastRank' = Rank
    /\ UNCHANGED <<pipe, scans, skipped, outAtCall, modalRet>>
    /\ PageLoad
    /\ fbTrace' = Append(fbTrace, "refresh")
    /\ pc' = "fb_filter"
    /\ UNCHANGED <<idx, unresolved, inp, fs, mv, scan, attempts, clearRet, log>>

FbRefresh ==
    /\ pc = "fb_refresh"
    /\ lastRank' = Rank
    /\ UNCHANGED <<pipe, scans, skipped, outAtCall, modalRet>>
    /\ PageLoad
    /\ fbTrace' = Append(fbTrace, "refresh")
    /\ pc' = "fb_modal"
    /\ UNCHANGED <<idx, unresolved, inp, fs, mv, scan, attempts, clearRet, log>>

\* close_try_later_modal(driver)
FbModal ==
    /\ pc = "fb_modal"
    /\ lastRank' = Rank
    /\ UNCHANGED <<pipe, scans, skipped, outAtCall>>
    /\ close_try_later_modal
    /\ fbTrace' = Append(fbTrace, "modal")
    /\ pc' = "fb_filter"
    /\ UNCHANGED <<idx, unresolved, inp, fs, mv, scan, attempts, clearRet, log>>

\* apply_year_filter(driver, wait, TARGET_YEAR)
FbFilter ==
    /\ pc = "fb_filter"
    /\ lastRank' = Rank
    /\ UNCHANGED <<pipe, scans, skipped, outAtCall>>
    /\ apply_year_filter
    /\ fbTrace' = Append(fbTrace, "filter")
    /\ pc' = "loop"
    /\ UNCHANGED <<idx, unresolved, inp, fs, mv, scan, attempts, clearRet, log>>

FbFilterRaises ==
    /\ pc = "fb_filter"
    /\ lastRank' = Rank
    /\ UNCHANGED <<pipe, scans, skipped, outAtCall, modalRet>>
    /\ Raise
    /\ UNCHANGED <<idx, unresolved, ui, fs, mv, scan, rst, log>>

\* ------------------------------------------------- the browser's transfers
\* The download directory is read only by the snapshot and by the polls, so
\* the transfers move at those two positions.
FsObserved == pc \in {"checked", "mv_poll"}

\* a triggered transfer starts writing: its .crdownload file appears
DlStart ==
    /\ FsObserved
    /\ UNCHANGED lastRank
    /\ UNCHANGED <<pipe, scans, skipped, outAtCall, modalRet>>
    /\ \E i \in pendingDl :
          /\ pendingDl' = pendingDl \ {i}
          /\ markers' = markers \cup {i}
    /\ UNCHANGED <<pc, idx, unresolved, inp, ui, dlFiles, outDir, mv, scan, rst, log>>

\* a transfer completes: the marker is replaced by the finished file
DlFinish ==
    /\ FsObserved
    /\ UNCHANGED lastRank
    /\ UNCHANGED <<pipe, scans, skipped, outAtCall, modalRet>>
    /\ \E i \in markers :
          /\ markers' = markers \ {i}
          /\ dlFiles' = dlFiles \cup {i}
    /\ UNCHANGED <<pc, idx, unresolved, inp, ui, pendingDl, outDir, mv, scan, rst, log>>

\* a transfer is abandoned: the marker disappears, no file is left
DlFail ==
    /\ FsObserved
    /\ UNCHANGED lastRank
    /\ UNCHANGED <<pipe, scans, skipped, outAtCall, modalRet>>
    /\ \E i \in markers : markers' = markers \ {i}
    /\ UNCHANGED <<pc, idx, unresolved, inp, ui, pendingDl, dlFiles, outDir, mv, scan, rst, log>>

\* ------------------------------------------------------------ specification
ProgNext ==
    \/ CreateDriver \/ CreateDriverFails
    \/ Navigate \/ NavigateRaises
    \/ CloseModal0
    \/ ApplyFilter0 \/ ApplyFilter0Raises
    \/ LoopNext \/ LoopEnd
    \/ SearchBox \/ SearchBoxRaises
    \/ GoClick \/ GoTimeout
    \/ RenderRows \/ RenderTimeout
    \/ CheckYear \/ NoYearRow \/ Snapshot
    \/ ClickDispatch \/ ClickNoRow \/ ClickStale \/ ClickGiveUp \/ ClickNoIcon
    \/ AfterClick
    \/ MvPollMarker \/ MvPollMove \/ MvPollNone \/ MvTimeout
    \/ Report
    \/ ClearClick \/ ClearTimeout \/ ClearGiveUp
    \/ FbRefresh \/ FbModal \/ FbFilter \/ FbFilterRaises
    \/ Finally

EnvNext == DlStart \/ DlFinish \/ DlFail

Next == ProgNext \/ EnvNext

Spec == Init /\ [][Next]_vars

\* ------------------------------------------------- run_pipeline (main.py)
\* the configurations run_pipeline can be called with: which files exist,
\* whether --force was given, and whether the teammate function of a step
\* loads and runs to its end (ok1, ok3)
Cfgs ==
    [in1 : BOOLEAN, s1 : BOOLEAN, out1 : BOOLEAN, ok1 : BOOLEAN,
     s2 : {"none", "missing", "present"}, out2 : BOOLEAN,
     s3 : BOOLEAN, ok3 : BOOLEAN, force : BOOLEAN]

\* run_pipeline has been called and is about to enter STEP 1
PipeStart(c) ==
    [pc |-> "step1", cfg |-> c, ran |-> <<>>, failed |-> 0, ret |-> -1,
     s2log |-> "none"]

\* step1_get_plan_names: "raise" or "return"
step1_get_plan_names(c) ==
    IF ~c.in1 \/ ~c.s1 THEN "raise"
    ELSE IF c.out1 /\ ~c.force THEN "return"
    ELSE IF ~c.ok1 THEN "raise"
    ELSE "return"

\* a STEP 2 that would insist on its script
step2_script_required(c) ==
    IF c.out2 /\ ~c.force THEN "return"
    ELSE "raise"

\* step2_search_efast: the output is there, or the script is not: return;
\* a script that is there: NotImplementedError
step2_search_efast(c) ==
    IF c.out2 /\ ~c.force THEN "return"
    ELSE IF c.s2 = "none" \/ c.s2 = "missing" THEN "return"
    ELSE "raise"

\* step3_download
step3_download(c) ==
    IF ~c.s3 THEN "raise"
    ELSE IF ~c.ok3 THEN "raise"
    ELSE "return"

\* except Exception as e: logger.exception(...); return 1
PipeExcept(n) ==
    pipe' = [pipe EXCEPT !.pc = "done", !.ran = Append(@, n),
                         !.failed = n, !.ret = 1]

\* everything of main() in DownloadFile.py, which run_pipeline does not call
mainVars == <<pc, idx, unresolved, lastRank, inp, ui, fs, mv, scan, rst, log, hist>>

Step1Returns ==
    /\ pipe.pc = "step1"
    /\ step1_get_plan_names(pipe.cfg) = "return"
    /\ pipe' = [pipe EXCEPT !.pc = "step2", !.ran = Append(@, 1),
                            !.cfg.out1 = TRUE]
    /\ UNCHANGED mainVars

Step1Raises ==
    /\ pipe.pc = "step1"
    /\ step1_get_plan_names(pipe.cfg) = "raise"
    /\ PipeExcept(1)
    /\ UNCHANGED mainVars

\* step2_csv.exists() chooses between "STEP 2 DONE" and the warning
Step2Returns ==
    /\ pipe.pc = "step2"
    /\ step2_search_efast(pipe.cfg) = "return"
    /\ pipe' = [pipe EXCEPT !.pc = "step3", !.ran = Append(@, 2),
                            !.s2log = IF pipe.cfg.out2 THEN "done" ELSE "skipped"]
    /\ UNCHANGED mainVars

Step2Raises ==
    /\ pipe.pc = "step2"
    /\ step2_search_efast(pipe.cfg) = "raise"
    /\ PipeExcept(2)
    /\ UNCHANGED mainVars

\* "PIPELINE DONE", return 0
Step3Returns ==
    /\ pipe.pc = "step3"
    /\ step3_download(pipe.cfg) = "return"
    /\ pipe' = [pipe EXCEPT !.pc = "done", !.ran = Append(@, 3), !.ret = 0]
    /\ UNCHANGED mainVars

Step3Raises ==
    /\ pipe.pc = "step3"
    /\ step3_download(pipe.cfg) = "raise"
    /\ PipeExcept(3)
    /\ UNCHANGED mainVars

\* main() of DownloadFile.py is not running: its state stays as constructed
PipeInit == MainInit /\ plan_names = <<>> /\ \E c \in Cfgs : pipe = PipeStart(c)

PipeNext ==
    \/ Step1Returns \/ Step1Raises
    \/ Step2Returns \/ Step2Raises
    \/ Step3Returns \/ Step3Raises

PipeSpec == PipeInit /\ [][PipeNext]_vars

TypeOK ==
    /\ pc \in {"create", "get", "modal0", "filter0", "loop", "search", "go",
               "render", "check", "checked", "click", "clicked", "mv_poll",
               "report", "clear", "fb_refresh", "fb_modal", "fb_filter",
               "finally", "exit"}
    /\ session \in {"none", "open", "quit"}
    /\ idx \in 0..Len(plan_names)
    /\ polls \in 0..PollBudget
    /\ attempts \in 0..3
    /\ scans \in SeqsUpTo({"hit", "norow", "stale", "noicon"}, ClickAttempts)
    /\ skipped \in BOOLEAN
    /\ \A f \in outAtCall : f[2] \in 1..Len(plan_names)
    /\ modalRet \in {"none", "true", "false"}
    /\ pipe.pc \in {"idle", "step1", "step2", "step3", "done"}

\* ------------------------------------------------------------------ claims

\* C1: whatever the outcome of an entity, the interface is in FilterApplied
\* (year filter active, no query term) when the next entity's query
\* submission begins.
C1_FilterAppliedAtNextEntity ==
    (pc = "search" /\ idx > 1) => FilterApplied

\* C1: the second entity starts after a download that did not materialise
C1_Witness ==
    pc = "search" /\ idx = 2 /\ site = "nofile" /\ FilterApplied

\* C2 (as claimed): an unexpected condition in one entity's processing does
\* not abort the batch: when main() is left after the loop was entered,
\* every entity of the input list has been started.
C2_FailureNeverAbortsBatch ==
    (pc = "exit" /\ idx >= 1) => idx = Len(plan_names)

\* C3: move_new_pdf returns True exactly when a file absent from `before`
\* has left the download directory for the canonical output path, and it
\* returns False, after the whole poll budget, when no poll found a marker
\* or a new file.
C3_AwaitCompletion ==
    (pc = "report" /\ clicked) =>
        /\ moved <=> /\ new_pdf # -1
                     /\ new_pdf \notin before
                     /\ new_pdf \notin dlFiles
                     /\ <<target_pdf, new_pdf>> \in outDir
        /\ (~markerSeen /\ ~newSeen) => (~moved /\ polls = PollBudget)
        /\ newSeen => moved

\* C3: a call that fails without marker or new file, after an earlier call
\* relocated a file
C3_Witness ==
    /\ pc = "report" /\ clicked /\ ~moved
    /\ ~markerSeen /\ ~newSeen /\ polls = PollBudget
    /\ outDir # {}

\* C4: no download trigger is issued while an earlier trigger's
\* move_new_pdf call has not returned: the only trigger that can be
\* unresolved is the one of the entity being processed.
C4_OneInFlight ==
    /\ unresolved \subseteq {idx}
    /\ (pc = "click") => unresolved = {}

\* C4: the second entity's trigger fires while the first entity's transfer,
\* given up by its move_new_pdf call, is still being written
C4_Witness ==
    pc = "clicked" /\ clicked /\ idx = 2 /\ unresolved = {2} /\ 1 \in markers

\* C5: after a successful relocation exactly one file is at the canonical
\* output path and it is the artifact just downloaded, also when a file of
\* an earlier run for the same entity was there.
C5_OverwriteIdempotent ==
    (pc = "report" /\ moved) =>
        /\ Cardinality({e \in outDir : e[1] = target_pdf}) = 1
        /\ <<target_pdf, new_pdf>> \in outDir

\* C5: the second run for the same entity replaces the first run's file
C5_Witness ==
    /\ pc = "report" /\ moved /\ existed
    /\ idx = 2 /\ plan_names[1] = plan_names[2]
    /\ new_pdf = 2

\* C6: once the session has been created, main() is never left with the
\* session still open.
C6_SessionReleased ==
    (pc = "exit") => session # "open"

\* C6: an exception raised inside the batch loop, the session is closed
C6_Witness ==
    pc = "exit" /\ raised /\ idx >= 1 /\ session = "quit"

\* C7: no operation blocks indefinitely: every step of the program, each
\* iteration of a wait included (also a poll that finds a marker), strictly
\* decreases the natural-number measure Rank, and a wait left with its
\* budget used up has produced a negative result (False / "Not found").
C7_NoIndefiniteBlocking ==
    /\ Rank >= 0
    /\ Rank < lastRank
    /\ (pc = "report" /\ lastRank = RankAt("mv_poll", 0)) => ~moved
    /\ (pc = "clicked" /\ lastRank = RankAt("click", 0)) => ~clicked
    /\ (pc = "fb_refresh" /\ lastRank = RankAt("clear", 0)) => clearRet = "false"
    /\ (pc = "clear" /\ lastRank = RankAt("render", 0)) => site = "timeout"
    /\ polls <= PollBudget /\ attempts <= 3

\* C7: a marker was present at every one of the 80 polls, the call returned
\* False
C7_Witness ==
    /\ pc = "report" /\ clicked /\ ~moved
    /\ lastRank = RankAt("mv_poll", 0)
    /\ polls = PollBudget /\ markerSeen /\ ~cleanSeen

\* C8 (as claimed): the line logged when a trigger fired but no file
\* materialised differs from the line logged when no row matched the year.
C8_DistinctLogReason ==
    \A p \in printed : \A q \in printed :
        (p[1] = "nofile" /\ q[1] = "norow") => p[2] # q[2]

\* C9: when clear_plan_name_only has failed on its 3 attempts, the fallback
\* has run reload, modal dismissal, year-filter re-application in this
\* order before the next entity starts, and the interface is FilterApplied.
C9_FallbackOrder ==
    (pc = "loop" /\ clearRet = "false") =>
        /\ attempts = 3
        /\ fbTrace = <<"refresh", "modal", "filter">>
        /\ FilterApplied

\* C9: the fallback completed after a successful download
C9_Witness ==
    pc = "loop" /\ clearRet = "false" /\ site = "found" /\ FilterApplied

\* the text s contains sub at some position
Contains(sub, s) ==
    \E i \in 0..(Len(s) - Len(sub)) : SubSeq(s, i + 1, i + Len(sub)) = sub

\* a row qualifies when it has a third cell whose text contains the year
Qualifies(row) == Len(row) >= 3 /\ Contains(TARGET_YEAR, row[3])

\* C10: year matching is by substring of the third cell: has_year_row is
\* true iff some located row qualifies, click_download_for_year clicks a
\* row iff some located row qualifies and the clicked row is the first
\* that does; "2024 Plan Year" matches "2024" and "2023" does not.
C10_SubstringYearMatch ==
    /\ (pc = "checked") =>
          (rowOK <=> \E i \in 1..Len(table) : Qualifies(table[i]))
    /\ (pc = "clicked") =>
          /\ (clickedRow # 0) <=> \E i \in 1..Len(table) : Qualifies(table[i])
          /\ (clickedRow # 0) =>
                /\ Qualifies(table[clickedRow])
                /\ \A i \in 1..(clickedRow - 1) : ~Qualifies(table[i])
    /\ (pc = "checked" /\ table = <<<<X, X, Y2024Plan>>>>) => rowOK
    /\ (pc = "checked" /\ table = <<<<X, X, Y2023>>>>) => ~rowOK

\* C10: a "2023" row followed by a "2024 Plan Year" row: the year is found
C10_Witness ==
    pc = "checked" /\ rowOK /\ table = <<<<X, X, Y2023>>, <<X, X, Y2024Plan>>>>

\* how the last attempt of click_download_for_year ended
LastScan == IF scans = <<>> THEN "none" ELSE scans[Len(scans)]

\* every attempt but the last one ended on a stale reference
EarlierStale == \A i \in 1..(Len(scans) - 1) : scans[i] = "stale"

\* C11 (as claimed): when the row scan at click time finds no qualifying
\* row, click_download_for_year scans again, and it reports no click only
\* after 3 scans in total.
C11_NoRowRescans ==
    (pc = "clicked" /\ ~clicked) => Len(scans) = ClickAttempts

\* C11 (amended): a scan that finds no qualifying row makes
\* click_download_for_year return False at once; an attempt is followed by
\* another one only when it ended on a stale reference, so a call still
\* running has seen nothing but stale attempts, and a call that reported no
\* click ended on a scan without qualifying row or on the third stale
\* attempt.
C11_NoRowReturnsAtOnce ==
    /\ Len(scans) <= ClickAttempts
    /\ (pc = "click") => \A i \in 1..Len(scans) : scans[i] = "stale"
    /\ (pc = "clicked" /\ ~clicked) =>
          /\ EarlierStale
          /\ \/ /\ LastScan = "norow"
                /\ \A i \in 1..Len(table) : ~Qualifies(table[i])
             \/ /\ LastScan = "stale"
                /\ Len(scans) = ClickAttempts

\* C11: the year check saw a qualifying row, the first scan at click time
\* sees none, and the call has returned False after this single scan
C11_Witness ==
    pc = "clicked" /\ ~clicked /\ rowOK /\ scans = <<"norow">>

\* the attempts of the running call that ended on a stale reference
StaleCount == Cardinality({i \in 1..Len(scans) : scans[i] = "stale"})

\* C12: click_download_for_year starts its action again, locating the rows
\* afresh, after a stale-reference failure, at most 3 attempts in all, and
\* returns False when all 3 went stale; the stale reference is the only
\* failure it swallows: a missing icon leaves the function as an exception.
C12_StaleRetry ==
    /\ StaleCount <= ClickAttempts
    /\ (pc \in {"click", "clicked"}) => (attempts = StaleCount /\ ~raised)
    /\ (pc = "clicked" /\ StaleCount = ClickAttempts) => ~clicked
    /\ (pc = "click" /\ StaleCount = ClickAttempts) => ~ENABLED ClickStale
    /\ (LastScan = "noicon") =>
          /\ raised
          /\ pc \in {"finally", "exit"}
          /\ idx \notin pendingDl

\* C12: three attempts went stale and the call has returned False
C12_Witness ==
    pc = "clicked" /\ ~clicked /\ scans = <<"stale", "stale", "stale">>

\* C13: a poll of move_new_pdf that finds a *.crdownload marker skips the
\* new-file check: it relocates and deletes nothing, even with a complete
\* new file in the directory, uses up one iteration and the loop polls
\* again. A relocation therefore happens only on a poll without marker,
\* and a new file seen only by marker polls is still in the download
\* directory, the output directory being as it was at the call.
C13_MarkerPollSkipsCheck ==
    /\ (pc = "report" /\ moved) => (markers = {} /\ cleanSeen)
    /\ skipped => /\ markerSeen
                  /\ polls >= 1
                  /\ pc \in {"mv_poll", "report"}
    /\ (skipped /\ ~cleanSeen) =>
          /\ ~moved
          /\ new_pdf = -1
          /\ outDir = outAtCall
          /\ before \subseteq dlFiles
          /\ dlFiles \ before # {}

\* C13: a marker poll has passed over a complete new file, which is still
\* in the download directory while the call goes on polling
C13_Witness ==
    /\ pc = "mv_poll" /\ skipped /\ ~cleanSeen
    /\ markers # {} /\ dlFiles \ before # {}
    /\ polls >= 1 /\ polls < PollBudget

\* the files whose content came from the transfer triggered for entity e
FilesOf(e) == {f \in outDir : f[2] = e}

\* C14: for an entity whose results wait timed out or none of whose rows
\* matched the year, no download is triggered and no file is written: its
\* outcome is "Not found" and the iteration goes straight to the reset,
\* without snapshot, trigger or await. Snapshot, click and move_new_pdf are
\* reached only after a successful year check.
C14_NoTriggerWithoutRow ==
    /\ (pc \in {"click", "clicked", "mv_poll", "report"}) => rowOK
    /\ (clicked \/ moved \/ before # {} \/ scans # <<>>) => rowOK
    /\ (pc \in {"render", "check", "checked"} \/ (pc = "clear" /\ ~rowOK)) =>
          /\ idx \notin pendingDl \cup markers \cup dlFiles \cup unresolved
          /\ FilesOf(idx) = {}
          /\ ~clicked /\ ~moved
          /\ before = {} /\ polls = 0
    /\ (pc = "clear" /\ ~rowOK) =>
          /\ site \in {"timeout", "norow"}
          /\ <<site, "Not found">> \in printed
          /\ lastRank \in {RankAt("render", 0), RankAt("checked", 0)} \/ attempts > 0

\* C14: the second entity has no matching row and is at its reset, the
\* file of the first entity being the only one written
C14_Witness ==
    /\ pc = "clear" /\ idx = 2 /\ ~rowOK /\ site = "norow"
    /\ outDir # {} /\ FilesOf(2) = {} /\ pendingDl = {} /\ markers = {}

\* C15: every trigger is preceded, in the same iteration, by a fresh
\* snapshot of the download directory: from the snapshot to the dispatched
\* click `before` is the listing of the directory, nothing has been
\* relocated and no other transfer has been triggered; move_new_pdf diffs
\* against this snapshot, which holds files of earlier entities only and
\* never the file it relocates.
C15_FreshSnapshot ==
    /\ (pc = "click") =>
          /\ before = list_pdfs
          /\ idx \notin pendingDl \cup markers \cup dlFiles
          /\ ~moved /\ ~clicked
    /\ (pc = "clicked") =>
          /\ before = list_pdfs
          /\ ~moved
          /\ clicked => (idx \in pendingDl /\ idx \notin before)
    /\ (pc = "mv_poll" \/ (pc = "report" /\ clicked)) =>
          /\ \A f \in before : f < idx
          /\ before \subseteq dlFiles
          /\ moved => (new_pdf \notin before /\ outDir # outAtCall)
          /\ ~moved => outDir = outAtCall

\* C15: the trigger of the second entity has fired right after a snapshot
\* that lists the late file of the first entity
C15_Witness ==
    pc = "clicked" /\ clicked /\ idx = 2 /\ before = {1} /\ dlFiles = {1}

\* the output names of the two plans, written out
SlugA == <<"A", "_", "B", "_", "_", "2", "0", "2", "4", ".", "p", "d", "f">>

SlugC == <<"C", "_", "_", "2", "0", "2", "4", ".", "p", "d", "f">>

\* C16: the outcome of an entity that passed the year check is "Found"
\* exactly when move_new_pdf returned True in this iteration, and then a
\* file exists at the path {sanitized name}__{year}.pdf of the entity; when
\* click_download_for_year returned False, move_new_pdf is not called and
\* the outcome is "Not found".
C16_FoundIffMoved ==
    /\ (pc = "clear" /\ rowOK) =>
          /\ (site = "found") <=> moved
          /\ moved => /\ <<"found", "Found">> \in printed
                      /\ clicked
                      /\ Exists(outDir, target_pdf)
                      /\ target_pdf = IF plan_names[idx] = PlanA
                                      THEN SlugA ELSE SlugC
          /\ ~moved => /\ site \in {"nofile", "noclick"}
                       /\ <<site, "Not found">> \in printed
          /\ ~clicked => (site = "noclick" /\ ~moved)
    /\ (pc = "mv_poll") => clicked
    /\ (pc = "report" /\ ~clicked) =>
          /\ ~moved
          /\ polls = 0 /\ ~markerSeen /\ ~cleanSeen /\ new_pdf = -1
          /\ lastRank = RankAt("clicked", 0)

\* C16: the entity "A/B" is reported Found with its file at A_B__2024.pdf
C16_Witness ==
    /\ pc = "clear" /\ rowOK /\ site = "found" /\ moved
    /\ plan_names[idx] = PlanA /\ <<SlugA, idx>> \in outDir

\* C17 (as claimed): close_try_later_modal returns True after closing an
\* overlay that is present and False, without raising, when there is none;
\* it never returns False while a detected overlay is left in place.
C17_NeverFalseWhileBlocked ==
    /\ (modalRet = "true") => ~modal
    /\ (modalRet = "false") => ~modal

\* C18: run_pipeline enters STEP 1, STEP 2, STEP 3 in this order; it
\* returns 0 only when all three steps returned, and as soon as a step
\* raises it returns 1, running no later step; a STEP 2 without script
\* returns (is skipped) and STEP 3 runs after it.
C18_PipelineOrder ==
    /\ pipe.ran = SubSeq(<<1, 2, 3>>, 1, Len(pipe.ran))
    /\ (pipe.pc = "done") <=> (pipe.ret \in {0, 1})
    /\ (pipe.ret = 0) => (pipe.ran = <<1, 2, 3>> /\ pipe.failed = 0)
    /\ (pipe.ret = 1) <=> (pipe.failed # 0)
    /\ (pipe.failed # 0) =>
          /\ Len(pipe.ran) = pipe.failed
          /\ pipe.pc = "done"
    /\ (pipe.cfg.s2 = "none") =>
          /\ pipe.failed # 2
          /\ (pipe.pc = "done" /\ Len(pipe.ran) >= 2) => Len(pipe.ran) = 3
    /\ (pipe.ret = 0 /\ ~pipe.cfg.out2) => pipe.s2log = "skipped"

\* C18: no STEP 2 script and no STEP 2 output: the step was skipped, STEP 3
\* ran and the pipeline returned 0
C18_Witness ==
    /\ pipe.pc = "done" /\ pipe.ret = 0
    /\ pipe.cfg.s2 = "none" /\ ~pipe.cfg.out2
    /\ pipe.ran = <<1, 2, 3>> /\ pipe.s2log = "skipped"

\* C19 (as claimed): a file relocated to the canonical path of an entity
\* was produced by the trigger of this entity: the file of an earlier
\* entity, complete only after that entity's move_new_pdf gave up, is never
\* saved under the name of a later entity.
C19_OwnTriggerOnly ==
    (pc = "report" /\ moved) =>
        /\ new_pdf = idx
        /\ \A f \in outDir : f[1] = target_pdf => f[2] = idx

\* C20: move_new_pdf never moves or deletes a file listed in `before`, and
\* when it returns False it has changed neither directory: the files of
\* `before` are in the download directory, no file was taken out of it,
\* and the output directory, a file already at the target path included,
\* is as it was at the call.
C20_MoveFrame ==
    /\ (pc = "mv_poll") =>
          /\ before \subseteq dlFiles
          /\ outDir = outAtCall
          /\ new_pdf = -1
    /\ (pc = "report" /\ clicked) =>
          /\ before \subseteq dlFiles
          /\ moved => /\ new_pdf \notin before
                      /\ Unlink(outDir, target_pdf) = Unlink(outAtCall, target_pdf)
          /\ ~moved => /\ outDir = outAtCall
                       /\ new_pdf = -1
                       /\ ~existed

\* C20: the call for the second entity has failed after all its polls and
\* the file saved at the same target path by the first entity is in place
C20_Witness ==
    /\ pc = "report" /\ clicked /\ ~moved /\ polls = PollBudget
    /\ idx = 2 /\ outDir = {<<target_pdf, 1>>} /\ outAtCall = outDir

====
